---------------------------- MODULE Spec2Model ----------------------------
(***************************************************************************)
(* Model of skills/default/current-time-from-script/scripts/current_time.py *)
(*                                                                         *)
(*     def main() -> None:                                                 *)
(*         now = datetime.now().astimezone()                               *)
(*         print(now.strftime("%Y-%m-%d %H:%M:%S %Z (%z)"))                *)
(*                                                                         *)
(* The host (system clock, timezone rules, process arguments) is the       *)
(* environment; the interpreter's datetime.now(), astimezone() and         *)
(* strftime() are modelled by what CPython computes: localtime() of the    *)
(* instant read, fold detection, the search for the UTC instant of a naive *)
(* local time, and the formatting of each directive.  Text is a sequence   *)
(* of one-character strings.  Instants are seconds since 1970-01-01T00:00Z.*)
(***************************************************************************)
EXTENDS Integers, Sequences, FiniteSets

(***************************************************************************)
(* Bounds of the model.                                                    *)
(***************************************************************************)
\* number of environment clock changes (ticks, steps back) in one behaviour
MaxClockMoves == 1
\* the invocations of the script, executed one after the other
Runs == 1..2

(***************************************************************************)
(* Text.                                                                   *)
(***************************************************************************)
DigitChars == <<"0", "1", "2", "3", "4", "5", "6", "7", "8", "9">>

IsDigit(c) == \E i \in 1..10 : DigitChars[i] = c

IsSpace(c) == c \in {" ", "\t", "\n", "\r"}

Abs(n) == IF n < 0 THEN 0 - n ELSE n

\* C's "%d" for 0 <= n
RECURSIVE Decimal(_)
Decimal(n) == IF n < 10 THEN <<DigitChars[n + 1]>>
              ELSE Decimal(n \div 10) \o <<DigitChars[(n % 10) + 1]>>

\* (mutant of Pad2) "%d" in place of "%02d"
Pad2_unpadded(n) == Decimal(n)

\* C's "%02d" for 0 <= n: at least two digits, zero padded
Pad2(n) == IF n < 10 THEN <<"0">> \o Decimal(n) ELSE Decimal(n)

(***************************************************************************)
(* The library routines below are functions: like the C routines they      *)
(* model, they take their arguments by value.                              *)
(*                                                                         *)
(* Proleptic Gregorian calendar, as used by localtime() and by datetime.   *)
(***************************************************************************)
\* days from 1970-01-01 to y-m-d
DaysFromCivil[y \in Int, m \in Int, d \in Int] ==
    LET yy  == IF m <= 2 THEN y - 1 ELSE y
        era == yy \div 400
        yoe == yy - era * 400
        mp  == IF m > 2 THEN m - 3 ELSE m + 9
        doy == (153 * mp + 2) \div 5 + d - 1
        doe == yoe * 365 + yoe \div 4 - yoe \div 100 + doy
    IN  era * 146097 + doe - 719468

\* y-m-d of the day `days` after 1970-01-01
CivilFromDays[days \in Int] ==
    LET z   == days + 719468
        era == z \div 146097
        doe == z - era * 146097
        yoe == (doe - doe \div 1460 + doe \div 36524 - doe \div 146096) \div 365
        doy == doe - (365 * yoe + yoe \div 4 - yoe \div 100)
        mp  == (5 * doy + 2) \div 153
        d   == doy - (153 * mp + 2) \div 5 + 1
        m   == IF mp < 10 THEN mp + 3 ELSE mp - 9
        y   == yoe + era * 400 + (IF m <= 2 THEN 1 ELSE 0)
    IN  [year |-> y, month |-> m, day |-> d]

\* utc_to_seconds(): the fields of a broken-down time read as if they were UTC
utc_to_seconds[year \in Int, month \in Int, day \in Int, hour \in Int, minute \in Int, second \in Int] ==
    DaysFromCivil[year, month, day] * 86400 + hour * 3600 + minute * 60 + second

(***************************************************************************)
(* The host's timezone database: for each configured zone, the offset and  *)
(* name in force before the first transition and the transitions (UTC      *)
(* instant, new offset, new name) in increasing order.                     *)
(***************************************************************************)
ZoneRules ==
    [ UTC      |-> [init  |-> [gmtoff |-> 0, zone |-> <<"U", "T", "C">>],
                    trans |-> <<>>],
      NewYork  |-> [init  |-> [gmtoff |-> -18000, zone |-> <<"E", "S", "T">>],
                    trans |-> << [at |-> 1710054000, gmtoff |-> -14400,
                                  zone |-> <<"E", "D", "T">>],
                                 [at |-> 1730613600, gmtoff |-> -18000,
                                  zone |-> <<"E", "S", "T">>] >>],
      Berlin   |-> [init  |-> [gmtoff |-> 3600, zone |-> <<"C", "E", "T">>],
                    trans |-> << [at |-> 1711846800, gmtoff |-> 7200,
                                  zone |-> <<"C", "E", "S", "T">>],
                                 [at |-> 1729990800, gmtoff |-> 3600,
                                  zone |-> <<"C", "E", "T">>] >>],
      Kolkata  |-> [init  |-> [gmtoff |-> 19800, zone |-> <<"I", "S", "T">>],
                    trans |-> <<>>],
      \* Africa/Monrovia: local mean time -0:44:30 until 1972-01-07
      Monrovia |-> [init  |-> [gmtoff |-> -2670, zone |-> <<"M", "M", "T">>],
                    trans |-> << [at |-> 63593070, gmtoff |-> 0,
                                  zone |-> <<"G", "M", "T">>] >>],
      \* a host whose C library reports full zone names (Windows)
      Tokyo    |-> [init  |-> [gmtoff |-> 32400,
                               zone |-> <<"T", "o", "k", "y", "o", " ",
                                          "S", "t", "a", "n", "d", "a", "r", "d",
                                          " ", "T", "i", "m", "e">>],
                    trans |-> <<>>],
      \* TZ set to a string the C library cannot parse: UTC with an empty name
      Unset    |-> [init  |-> [gmtoff |-> 0, zone |-> <<>>],
                    trans |-> <<>>] ]

Zones == DOMAIN ZoneRules

\* the rule (offset, name) of zone z in force at UTC instant u
RuleAt(z, u) ==
    LET tr   == ZoneRules[z].trans
        past == {i \in 1..Len(tr) : tr[i].at <= u}
    IN  IF past = {} THEN ZoneRules[z].init
        ELSE LET last == CHOOSE i \in past : \A j \in past : j <= i
             IN  [gmtoff |-> tr[last].gmtoff, zone |-> tr[last].zone]

\* a calendar date
Ymd == [year : Int, month : Int, day : Int]

\* struct tm of the date ymd and the second sod of that day
make_tm[ymd \in Ymd, sod \in Int, gmtoff \in Int, zone \in Seq(STRING)] ==
    [tm_year |-> ymd.year, tm_mon |-> ymd.month, tm_mday |-> ymd.day,
     tm_hour |-> sod \div 3600, tm_min |-> (sod % 3600) \div 60,
     tm_sec |-> sod % 60, tm_gmtoff |-> gmtoff, tm_zone |-> zone]

\* the wall clock w (seconds of local time since the epoch) broken down
BrokenDown[w \in Int, gmtoff \in Int, zone \in Seq(STRING)] ==
    make_tm[CivilFromDays[w \div 86400], w % 86400, gmtoff, zone]

\* localtime(u): the broken-down local time of UTC instant u in zone z
localtime[z \in Zones, u \in Int] ==
    LET r == RuleAt(z, u)
    IN  BrokenDown[u + r.gmtoff, r.gmtoff, r.zone]

(***************************************************************************)
(* datetime.now(): datetime.fromtimestamp(time.time()) with tz None.       *)
(* A datetime is a record of its fields; tzinfo is <<>> for None and       *)
(* <<[utcoffset, name]>> for a datetime.timezone.                          *)
(***************************************************************************)
max_fold_seconds == 24 * 3600

Min(a, b) == IF a < b THEN a ELSE b

Max(a, b) == IF a > b THEN a ELSE b

\* struct tm, with the year and the month as the calendar writes them
Tm == [tm_year : Int, tm_mon : Int, tm_mday : Int, tm_hour : Int, tm_min : Int,
       tm_sec : Int, tm_gmtoff : Int, tm_zone : Seq(STRING)]

\* the fields of a broken-down time read back as seconds, as if they were
\* UTC; a leap second is clamped to 59
tm_seconds[tm \in Tm] ==
    utc_to_seconds[tm.tm_year, tm.tm_mon, tm.tm_mday,
                   tm.tm_hour, tm.tm_min, Min(tm.tm_sec, 59)]

\* local(u): localtime(u) read back as seconds
local[z \in Zones, u \in Int] == tm_seconds[localtime[z, u]]

\* whether result_seconds, the local time of instant t, is the second
\* occurrence of a repeated local time, given the local time a day before
probe_fold[z \in Zones, t \in Int, result_seconds \in Int, probe_seconds \in Int] ==
    LET transition == result_seconds - probe_seconds - max_fold_seconds
    IN  IF transition < 0 /\ local[z, t + transition] = result_seconds
        THEN 1 ELSE 0

\* (mutant of detect_fold) the fold is never detected
detect_fold_never(z, t) == 0

\* the fold of the local time of instant t
detect_fold(z, t) ==
    probe_fold[z, t, local[z, t], local[z, t - max_fold_seconds]]

\* the naive datetime of a broken-down time
new_datetime[tm \in Tm, fold \in {0, 1}] ==
    [year |-> tm.tm_year, month |-> tm.tm_mon, day |-> tm.tm_mday,
     hour |-> tm.tm_hour, minute |-> tm.tm_min, second |-> Min(tm.tm_sec, 59),
     fold |-> fold, tzinfo |-> <<>>]

\* (mutant of fromtimestamp) the fields of gmtime(), as datetime.utcnow()
fromtimestamp_utc(z, t) == new_datetime[BrokenDown[t, 0, <<>>], 0]

fromtimestamp(z, t) == new_datetime[localtime[z, t], detect_fold(z, t)]

(***************************************************************************)
(* datetime.astimezone() of a naive datetime, tz None.                     *)
(***************************************************************************)
\* local_to_seconds() once both offsets a and b are known: choose between
\* the candidates u1 = t - a and u2 = t - b
choose_solution[z \in Zones, t \in Int, fold \in {0, 1}, a \in Int, b \in Int, u1 \in Int, t1 \in Int, u2 \in Int] ==
    IF t1 = t /\ a = b THEN u1
    ELSE IF local[z, u2] = t THEN u2
    ELSE IF t1 = t THEN u1
    ELSE IF fold = 1 THEN Min(u1, u2) ELSE Max(u1, u2)

\* local_to_seconds() once the first candidate u1 = t - a and its local time
\* t1 are known: find the other offset b, a day away or from t1
other_offset[z \in Zones, t \in Int, fold \in {0, 1}, a \in Int, u1 \in Int, t1 \in Int, b \in Int] ==
    choose_solution[z, t, fold, a, b, u1, t1, t - b]

probe_offset[z \in Zones, p \in Int] == local[z, p] - p

second_candidate[z \in Zones, t \in Int, fold \in {0, 1}, a \in Int, u1 \in Int, t1 \in Int] ==
    other_offset[z, t, fold, a, u1, t1,
                 IF t1 = t
                 THEN probe_offset[z, IF fold = 1 THEN u1 + max_fold_seconds
                                                  ELSE u1 - max_fold_seconds]
                 ELSE t1 - u1]

first_candidate[z \in Zones, t \in Int, fold \in {0, 1}, a \in Int] ==
    second_candidate[z, t, fold, a, t - a, local[z, t - a]]

\* (mutant of local_to_seconds) the fold is ignored: always the earlier instant
local_to_seconds_fold0(z, t, fold) == first_candidate[z, t, 0, local[z, t] - t]

\* local_to_seconds(): solve t = local(u) for u, the UTC instant of the naive
\* local time t, taking the earlier solution for fold 0 and the later for 1
local_to_seconds(z, t, fold) == first_candidate[z, t, fold, local[z, t] - t]

\* local_timezone_from_timestamp(): the fixed-offset timezone of instant u
local_timezone_from_timestamp[z \in Zones, u \in Int] ==
    LET tm == localtime[z, u]
    IN  [utcoffset |-> tm.tm_gmtoff, name |-> tm.tm_zone]

\* the instant local_timezone_from_local() settles on: in a gap, the other one
skip_gap[seconds \in Int, seconds2 \in Int, fold \in {0, 1}] ==
    IF seconds2 # seconds /\ ((seconds2 > seconds) = (fold = 1))
    THEN seconds2 ELSE seconds

\* local_timezone_from_local(): the timezone of the naive local time t
local_timezone_from_local(z, t, fold) ==
    local_timezone_from_timestamp[
        z, skip_gap[local_to_seconds(z, t, fold),
                    local_to_seconds(z, t, 1 - fold), fold]]

\* tzinfo.fromutc(result): result + offset, with tzinfo attached
fromutc[utc \in Int, utcoffset \in Int, name \in Seq(STRING)] ==
    LET tm == BrokenDown[utc + utcoffset, utcoffset, name]
    IN  [year |-> tm.tm_year, month |-> tm.tm_mon, day |-> tm.tm_mday,
         hour |-> tm.tm_hour, minute |-> tm.tm_min, second |-> tm.tm_sec,
         fold |-> 0,
         tzinfo |-> <<[utcoffset |-> utcoffset, name |-> name]>>]

\* the local timezone of the UTC date and time utc, attached to it
to_local[z \in Zones, utc \in Int] ==
    LET tzinfo == local_timezone_from_timestamp[z, utc]
    IN  fromutc[utc, tzinfo.utcoffset, tzinfo.name]

\* the UTC date and time of the naive local time t: t - utcoffset(t)
to_utc[z \in Zones, t \in Int, fold \in {0, 1}] ==
    t - local_timezone_from_local(z, t, fold).utcoffset

astimezone(z, self) ==
    to_local[z, to_utc[z, utc_to_seconds[self.year, self.month, self.day,
                                         self.hour, self.minute, self.second],
                       self.fold]]

(***************************************************************************)
(* strftime(): the format is scanned left to right; %z and %Z are replaced *)
(* by datetime, the other directives by the C library.                     *)
(***************************************************************************)
Format == <<"%", "Y", "-", "%", "m", "-", "%", "d", " ",
            "%", "H", ":", "%", "M", ":", "%", "S", " ",
            "%", "Z", " ", "(", "%", "z", ")">>

\* %z: sign, hours and minutes, and seconds only when they are not zero
format_utcoffset(offset) ==
    LET sign == IF offset < 0 THEN <<"-">> ELSE <<"+">>
        off  == Abs(offset)
        h    == off \div 3600
        m    == (off % 3600) \div 60
        s    == off % 60
    IN  IF s # 0 THEN sign \o Pad2(h) \o Pad2(m) \o Pad2(s)
        ELSE sign \o Pad2(h) \o Pad2(m)

Directive(dt, ch) ==
    CASE ch = "Y" -> Decimal(dt.year)
      [] ch = "m" -> Pad2(dt.month)
      [] ch = "d" -> Pad2(dt.day)
      [] ch = "H" -> Pad2(dt.hour)
      [] ch = "M" -> Pad2(dt.minute)
      [] ch = "S" -> Pad2(dt.second)
      [] ch = "Z" -> IF dt.tzinfo = <<>> THEN <<>> ELSE dt.tzinfo[1].name
      [] ch = "z" -> IF dt.tzinfo = <<>> THEN <<>>
                     ELSE format_utcoffset(dt.tzinfo[1].utcoffset)
      [] OTHER    -> <<"%", ch>>

RECURSIVE Scan(_, _, _)
Scan(dt, format, i) ==
    IF i > Len(format) THEN <<>>
    ELSE IF format[i] = "%" /\ i < Len(format)
         THEN Directive(dt, format[i + 1]) \o Scan(dt, format, i + 2)
         ELSE <<format[i]>> \o Scan(dt, format, i + 1)

strftime(dt, format) == Scan(dt, format, 1)

(***************************************************************************)
(* The host and the invocations of the script.                             *)
(***************************************************************************)
VARIABLES
    clock,    \* the host's system clock: seconds since the epoch
    tz,       \* the host's configured timezone, a key of ZoneRules
    moves,    \* how many times the environment has moved the clock
    pc,       \* pc[r]: where invocation r stands
    inv,      \* inv[r]: the arguments and environment given to invocation r
    fault,    \* fault[r]: the platform failure invocation r meets, or "none"
    ts,       \* ts[r]: the clock readings taken by invocation r, in order
    naive,    \* naive[r]: the value of datetime.now(), <<>> before it exists
    now,      \* now[r]: the local variable `now` of main(), <<>> while unbound
    stdout,   \* stdout[r]: the writes of invocation r to standard output
    stderr,   \* stderr[r]: the writes of invocation r to standard error
    status    \* status[r]: the exit status, <<>> while the process runs

vars == <<clock, tz, moves, pc, inv, fault, ts, naive, now, stdout, stderr, status>>

\* what a process is started with; none of it is read by the script
Invocations ==
    { [argv |-> <<>>, environ |-> {}],
      [argv |-> <<"--utc">>, environ |-> {"LANG=fr_FR.UTF-8"}] }

\* what can fail underneath the script: reading the clock and converting it
\* in datetime.now(), or the timezone lookup in astimezone()
Faults == {"none", "clock", "timezone"}

\* clock readings at which the model starts: around each transition of the
\* zone (an hour before, the second before, the transition, the last second
\* of the hour after, an hour after) or, for a zone without transitions,
\* around 2025-01-01T00:00:00Z
Deltas == {-3600, -1, 0, 3599, 3600}

TransitionInstants(z) ==
    {ZoneRules[z].trans[i].at : i \in 1..Len(ZoneRules[z].trans)}

StartInstants(z) ==
    IF ZoneRules[z].trans = <<>> THEN {1735689599, 1735689600}
    ELSE {t + k : t \in TransitionInstants(z), k \in Deltas}

\* by how much time passes in one step of the environment, and by how much
\* the clock is set back
TickSteps == {1, 3600}

SetBackSteps == {3600}

Terminated(r) == pc[r] = "done"

Init ==
    /\ tz \in Zones
    /\ clock \in StartInstants(tz)
    /\ moves = 0
    /\ pc = [r \in Runs |-> "idle"]
    /\ inv = [r \in Runs |-> <<>>]
    /\ fault = [r \in Runs |-> "none"]
    /\ ts = [r \in Runs |-> <<>>]
    /\ naive = [r \in Runs |-> <<>>]
    /\ now = [r \in Runs |-> <<>>]
    /\ stdout = [r \in Runs |-> <<>>]
    /\ stderr = [r \in Runs |-> <<>>]
    /\ status = [r \in Runs |-> <<>>]

\* time passes on the host
Tick ==
    /\ moves < MaxClockMoves
    /\ \E d \in TickSteps : clock' = clock + d
    /\ moves' = moves + 1
    /\ UNCHANGED <<tz, pc, inv, fault, ts, naive, now, stdout, stderr, status>>

\* the host's clock is set back (clock synchronisation, an administrator)
ClockSetBack ==
    /\ moves < MaxClockMoves
    /\ \E d \in SetBackSteps : clock' = clock - d
    /\ moves' = moves + 1
    /\ UNCHANGED <<tz, pc, inv, fault, ts, naive, now, stdout, stderr, status>>

\* the script is started; a run starts after the one before it has ended
Invoke(r) ==
    /\ pc[r] = "idle"
    /\ r > 1 => Terminated(r - 1)
    /\ \E i \in Invocations : inv' = [inv EXCEPT ![r] = <<i>>]
    /\ \E f \in Faults : fault' = [fault EXCEPT ![r] = f]
    /\ pc' = [pc EXCEPT ![r] = "main"]
    /\ UNCHANGED <<clock, tz, moves, ts, naive, now, stdout, stderr, status>>

\* time.time(): the one place the script reads the clock
time_time(r) == clock

\* line 7, datetime.now()
DatetimeNow(r) ==
    /\ pc[r] = "main"
    /\ fault[r] # "clock"
    /\ pc' = [pc EXCEPT ![r] = "naive"]
    /\ LET t == time_time(r)
       IN  /\ ts' = [ts EXCEPT ![r] = Append(@, t)]
           /\ naive' = [naive EXCEPT ![r] = <<fromtimestamp(tz, t)>>]
    /\ UNCHANGED <<clock, tz, moves, inv, fault, now, stdout, stderr, status>>

\* (mutant of Uncaught) the exception is swallowed and the process exits 0
Uncaught_swallowed(r) ==
    /\ stderr' = stderr
    /\ status' = [status EXCEPT ![r] = <<0>>]
    /\ pc' = [pc EXCEPT ![r] = "done"]

\* an exception nothing catches: the interpreter prints the traceback to
\* standard error and exits with status 1
Uncaught(r) ==
    /\ stderr' = [stderr EXCEPT ![r] = Append(@, "Traceback")]
    /\ status' = [status EXCEPT ![r] = <<1>>]
    /\ pc' = [pc EXCEPT ![r] = "done"]

\* line 7, datetime.now() raises (the platform's clock or localtime() fails)
DatetimeNowRaises(r) ==
    /\ pc[r] = "main"
    /\ fault[r] = "clock"
    /\ Uncaught(r)
    /\ UNCHANGED <<clock, tz, moves, inv, fault, ts, naive, now, stdout>>

\* (mutant of AsTimezone) the clock is read a second time for the timezone
AsTimezone_rereads(r) ==
    /\ pc[r] = "naive"
    /\ fault[r] # "timezone"
    /\ ts' = [ts EXCEPT ![r] = Append(@, clock)]
    /\ now' = [now EXCEPT ![r] = <<astimezone(tz, fromtimestamp(tz, clock))>>]
    /\ pc' = [pc EXCEPT ![r] = "aware"]
    /\ UNCHANGED <<clock, tz, moves, inv, fault, naive, stdout, stderr, status>>

\* line 7, .astimezone() and the binding of `now`
AsTimezone(r) ==
    /\ pc[r] = "naive"
    /\ fault[r] # "timezone"
    /\ pc' = [pc EXCEPT ![r] = "aware"]
    /\ now' = [now EXCEPT ![r] = <<astimezone(tz, naive[r][1])>>]
    /\ UNCHANGED <<clock, tz, moves, inv, fault, ts, naive, stdout, stderr, status>>

\* line 7, .astimezone() raises (the platform's timezone lookup fails)
AsTimezoneRaises(r) ==
    /\ pc[r] = "naive"
    /\ fault[r] = "timezone"
    /\ Uncaught(r)
    /\ UNCHANGED <<clock, tz, moves, inv, fault, ts, naive, now, stdout>>

\* print(text): one write of the text and the line end
print_line(text) == text \o <<"\n">>

\* (mutant of PrintNow) the text and the line end are written separately
PrintNow_two_writes(r) ==
    /\ pc[r] = "aware"
    /\ stdout' = [stdout EXCEPT ![r] = @ \o <<strftime(now[r][1], Format), <<"\n">> >>]
    /\ pc' = [pc EXCEPT ![r] = "printed"]
    /\ UNCHANGED <<clock, tz, moves, inv, fault, ts, naive, now, stderr, status>>

\* (mutant of PrintNow) a command-line argument selects another format
PrintNow_reads_argv(r) ==
    /\ pc[r] = "aware"
    /\ LET format == IF inv[r][1].argv = <<>> THEN Format
                     ELSE <<"%", "Y", "-", "%", "m", "-", "%", "d">>
       IN  stdout' = [stdout EXCEPT ![r] =
                         Append(@, print_line(strftime(now[r][1], format)))]
    /\ pc' = [pc EXCEPT ![r] = "printed"]
    /\ UNCHANGED <<clock, tz, moves, inv, fault, ts, naive, now, stderr, status>>

\* line 8
PrintNow(r) ==
    /\ pc[r] = "aware"
    /\ pc' = [pc EXCEPT ![r] = "printed"]
    /\ stdout' = [stdout EXCEPT ![r] =
                      Append(@, print_line(strftime(now[r][1], Format)))]
    /\ UNCHANGED <<clock, tz, moves, inv, fault, ts, naive, now, stderr, status>>

\* (mutant of Exit) the process ends with a failure status
Exit_nonzero(r) ==
    /\ pc[r] = "printed"
    /\ status' = [status EXCEPT ![r] = <<1>>]
    /\ pc' = [pc EXCEPT ![r] = "done"]
    /\ UNCHANGED <<clock, tz, moves, inv, fault, ts, naive, now, stdout, stderr>>

\* lines 11-12: main() returns and the interpreter exits with status 0
Exit(r) ==
    /\ pc[r] = "printed"
    /\ status' = [status EXCEPT ![r] = <<0>>]
    /\ pc' = [pc EXCEPT ![r] = "done"]
    /\ UNCHANGED <<clock, tz, moves, inv, fault, ts, naive, now, stdout, stderr>>

\* the steps of process r once it is started
Step(r) ==
    \/ DatetimeNow(r)
    \/ DatetimeNowRaises(r)
    \/ AsTimezone(r)
    \/ AsTimezoneRaises(r)
    \/ PrintNow(r)
    \/ Exit(r)

\* a step of the running process: the runs follow one another, so at most
\* one is between its start and its end
Program == \E r \in Runs : Step(r)

Next ==
    \/ Tick
    \/ ClockSetBack
    \/ \E r \in Runs : Invoke(r)
    \/ Program

Spec == Init /\ [][Next]_vars

\* a started process is single-threaded and runs until it ends
LiveSpec == Spec /\ WF_vars(Program)

(***************************************************************************)
(* Reading the output back.  A line is one write to standard output.       *)
(***************************************************************************)
DigitValue(c) == (CHOOSE i \in 1..10 : DigitChars[i] = c) - 1

\* the number written in text[i..j]
RECURSIVE Number(_, _, _)
Number(text, i, j) ==
    IF j < i THEN 0 ELSE Number(text, i, j - 1) * 10 + DigitValue(text[j])

AllDigits(text, i, j) == \A k \in i..j : IsDigit(text[k])

\* "YYYY-MM-DD HH:MM:SS " in text[1..20]
HasDateTimePrefix(text) ==
    /\ Len(text) >= 20
    /\ AllDigits(text, 1, 4) /\ text[5] = "-"
    /\ AllDigits(text, 6, 7) /\ text[8] = "-"
    /\ AllDigits(text, 9, 10) /\ text[11] = " "
    /\ AllDigits(text, 12, 13) /\ text[14] = ":"
    /\ AllDigits(text, 15, 16) /\ text[17] = ":"
    /\ AllDigits(text, 18, 19) /\ text[20] = " "

\* " (" sign and `digits` digits ")" newline at the end of the text
HasOffsetSuffix(text, digits) ==
    LET n == Len(text)
    IN  /\ n >= 20 + digits + 5
        /\ text[n] = "\n" /\ text[n - 1] = ")"
        /\ AllDigits(text, n - 1 - digits, n - 2)
        /\ text[n - 2 - digits] \in {"+", "-"}
        /\ text[n - 3 - digits] = "("
        /\ text[n - 4 - digits] = " "

\* ^\d{4}-\d{2}-\d{2} \d{2}:\d{2}:\d{2} \S* \([+-]\d{4}\)\n$
MatchesPattern(text) ==
    /\ HasDateTimePrefix(text)
    /\ HasOffsetSuffix(text, 4)
    /\ \A k \in 21..(Len(text) - 9) : ~IsSpace(text[k])

\* the number of digits of the offset field: those between the sign and ")"
OffsetDigits(text) ==
    IF HasOffsetSuffix(text, 4) THEN 4
    ELSE IF HasOffsetSuffix(text, 6) THEN 6 ELSE 0

\* the timezone name: what lies between the prefix and the offset suffix
NameField(text) == SubSeq(text, 21, Len(text) - 5 - OffsetDigits(text))

\* the printed local date and time, as seconds since the epoch of its fields
ParsedLocal(text) ==
    utc_to_seconds[Number(text, 1, 4), Number(text, 6, 7), Number(text, 9, 10),
                   Number(text, 12, 13), Number(text, 15, 16),
                   Number(text, 18, 19)]

\* the offset field read as sign, HH, MM and, when six digits are printed, SS
ParsedOffset(text) ==
    LET d == OffsetDigits(text)
        k == Len(text) - 1 - d
        v == Number(text, k, k + 1) * 3600 + Number(text, k + 2, k + 3) * 60
             + (IF d = 6 THEN Number(text, k + 4, k + 5) ELSE 0)
    IN  IF text[k - 1] = "-" THEN 0 - v ELSE v

\* the runs that have printed, and the line each printed
Printed(r) == stdout[r] # <<>>

Line(r) == stdout[r][1]

\* the host's offset and zone name in force at the instant run r read the clock
HostRule(r) == RuleAt(tz, ts[r][1])

HasNoSpace(name) == \A k \in 1..Len(name) : ~IsSpace(name[k])

BothPrinted == Printed(1) /\ Printed(2)

\* the UTC instant a line denotes: its local date and time minus its offset
ParsedInstant(text) == ParsedLocal(text) - ParsedOffset(text)

\* the aware datetime of instant t on the host: the wall clock at t with the
\* offset and name in force at t
WallClock(z, t) == fromutc[t, RuleAt(z, t).gmtoff, RuleAt(z, t).zone]

(***************************************************************************)
(* The claims.                                                             *)
(***************************************************************************)

\* C1 (as stated): for every clock reading and every host timezone, the line
\* written matches ^\d{4}-\d{2}-\d{2} \d{2}:\d{2}:\d{2} \S* \([+-]\d{4}\)\n$
\* (a name without whitespace, an offset of exactly four digits).
C1_MatchesRegex == \A r \in Runs : Printed(r) => MatchesPattern(Line(r))

\* C1 (amended): the line written is the date and time in the fixed pattern,
\* a space, the zone name the host reports (possibly empty, possibly with
\* spaces), " (", the sign and HHMM, followed by SS exactly when the offset
\* is not a whole number of minutes, ")" and a newline; it matches the
\* regular expression exactly when the name has no whitespace and the offset
\* is a whole number of minutes.
C1_LineFormat ==
    \A r \in Runs : Printed(r) =>
        /\ HasDateTimePrefix(Line(r))
        /\ OffsetDigits(Line(r)) = (IF HostRule(r).gmtoff % 60 = 0 THEN 4 ELSE 6)
        /\ NameField(Line(r)) = HostRule(r).zone
        /\ MatchesPattern(Line(r))
             <=> (HasNoSpace(HostRule(r).zone) /\ HostRule(r).gmtoff % 60 = 0)

C1_Witness ==
    \E r \in Runs : Printed(r) /\ MatchesPattern(Line(r)) /\ tz = "Kolkata"

\* C2: every run writes to standard output at most once, the write is one
\* line ended by a newline, a run that exits 0 has written exactly once, and
\* nothing is written to standard error unless the platform failed.
C2_SingleWrite ==
    \A r \in Runs :
        /\ Len(stdout[r]) <= 1
        /\ Printed(r) =>
              /\ Line(r)[Len(Line(r))] = "\n"
              /\ \A k \in 1..(Len(Line(r)) - 1) : Line(r)[k] # "\n"
        /\ status[r] = <<0>> => Len(stdout[r]) = 1 /\ stderr[r] = <<>>
        /\ fault[r] = "none" => stderr[r] = <<>>

C2_Witness == \E r \in Runs : status[r] = <<0>> /\ Len(stdout[r]) = 1

\* C3: every invocation on a host whose clock and timezone lookup work runs
\* to completion: it eventually reaches the terminal state with exit status
\* 0, it has printed exactly once when it gets there, and nothing of the
\* process changes after the terminal state.
C3_RunsToCompletion ==
    /\ \A r \in Runs :
          (pc[r] = "main" /\ fault[r] = "none")
              ~> (Terminated(r) /\ status[r] = <<0>>)
    /\ [](\A r \in Runs : status[r] = <<0>> =>
              Terminated(r) /\ Len(stdout[r]) = 1)
    /\ [][\A r \in Runs : Terminated(r) =>
              /\ pc'[r] = pc[r] /\ status'[r] = status[r]
              /\ stdout'[r] = stdout[r] /\ stderr'[r] = stderr[r]
              /\ now'[r] = now[r] /\ ts'[r] = ts[r]]_vars

C3_Witness == Terminated(2) /\ status[1] = <<0>> /\ status[2] = <<0>>

\* C4 (as stated): of two runs executed one after the other, the local date
\* and time printed by the first is at most that printed by the second,
\* whatever the clock and the timezone did in between.
C4_LocalNonDecreasing ==
    BothPrinted => ParsedLocal(Line(1)) <= ParsedLocal(Line(2))

\* C4 (amended): of two runs executed one after the other between whose
\* clock readings the clock was not set back, the instant printed by the
\* first (local date and time minus printed offset) is at most that printed
\* by the second; the printed local date and time are non-decreasing too
\* unless the UTC offset in force decreased between the two readings.
C4_InstantNonDecreasing ==
    (BothPrinted /\ ts[1][1] <= ts[2][1]) =>
        /\ ParsedInstant(Line(1)) <= ParsedInstant(Line(2))
        /\ HostRule(1).gmtoff <= HostRule(2).gmtoff
              => ParsedLocal(Line(1)) <= ParsedLocal(Line(2))

C4_Witness ==
    /\ BothPrinted /\ ts[1][1] < ts[2][1]
    /\ HostRule(1).gmtoff > HostRule(2).gmtoff
    /\ naive[2][1].fold = 1

\* C5 (as stated): the offset field is a sign and four digits HHMM, and its
\* value is the host's UTC offset in force at the instant the clock was read.
C5_OffsetIsHHMM ==
    \A r \in Runs : Printed(r) =>
        /\ HasOffsetSuffix(Line(r), 4)
        /\ ParsedOffset(Line(r)) = HostRule(r).gmtoff

\* C5 (amended): the offset field, read as a sign and HHMM followed by SS
\* when the offset is not a whole number of minutes, is the host's UTC
\* offset in force at the instant the clock was read.
C5_OffsetIsHostOffset ==
    \A r \in Runs : Printed(r) =>
        /\ OffsetDigits(Line(r)) \in {4, 6}
        /\ ParsedOffset(Line(r)) = HostRule(r).gmtoff

C5_Witness ==
    \E r \in Runs : Printed(r) /\ naive[r][1].fold = 1 /\ tz = "NewYork"

C7_FaultNotCaught ==
    \A r \in Runs : fault[r] # "none" =>
        /\ stdout[r] = <<>>
        /\ pc[r] \notin {"aware", "printed"}
        /\ Len(ts[r]) <= 1
        /\ status[r] # <<0>>
        /\ Terminated(r) => status[r] = <<1>> /\ stderr[r] # <<>>

C7_Witness == \E r \in Runs : Terminated(r) /\ fault[r] = "timezone"

\* C8: a run reads the clock once; `now` is the aware local time of that one
\* reading (date, time, zone name and offset all of the instant read, even
\* when the clock moves before the line is printed), the line printed is that
\* value formatted, and `now` never changes once bound.
C8_SingleValue ==
    /\ [](\A r \in Runs :
            /\ Len(ts[r]) <= 1
            /\ now[r] # <<>> => now[r][1] = WallClock(tz, ts[r][1])
            /\ Printed(r) => Line(r) = print_line(strftime(now[r][1], Format)))
    /\ [][\A r \in Runs : now[r] # <<>> => now'[r] = now[r]]_vars

C8_Witness == \E r \in Runs : Printed(r) /\ clock # ts[r][1]

\* C9: the printed local date and time minus the printed offset is the UTC
\* instant read from the clock, also inside a repeated local hour and next
\* to a skipped one.
C9_RoundTrip ==
    \A r \in Runs : Printed(r) => ParsedInstant(Line(r)) = ts[r][1]

C9_Witness ==
    \E r \in Runs : Printed(r) /\ naive[r][1].fold = 1 /\ tz = "Berlin"

=============================================================================
